---------------------------- MODULE Spec2Model ----------------------------
(***************************************************************************)
(* A model of toylisp: the line-oriented front end (main), the tokenizer,  *)
(* the parser, the AST compiler and the evaluator with its environment     *)
(* chain.  Text is a sequence of one-character strings; a symbol is the    *)
(* sequence of its characters.                                             *)
(***************************************************************************)
EXTENDS Integers, Sequences, FiniteSets, TLC

(***************************************************************************)
(* Bounds of the model.                                                    *)
(***************************************************************************)
\* input lines read in one session
MaxLines == 3
\* nested closure invocations before the Go stack is taken to be exhausted
MaxDepth == 3
\* characters of a text handed to the tokenizer and parser in SpecParse
MaxText == 4
\* the longest argument list the primitive add is applied to
MaxArgs == 3
\* the largest integer value, and the longest string value in characters
\* or escape sequences, that is rendered in SpecRender
MaxInt == 30
MaxUnits == 3

(***************************************************************************)
(* Characters.                                                             *)
(***************************************************************************)
Lower == {"a", "b", "c", "d", "e", "f", "g", "h", "i", "j", "k", "l", "m",
          "n", "o", "p", "q", "r", "s", "t", "u", "v", "w", "x", "y", "z"}
Upper == {"A", "B", "C", "D", "E", "F", "G", "H", "I", "J", "K", "L", "M",
          "N", "O", "P", "Q", "R", "S", "T", "U", "V", "W", "X", "Y", "Z"}
Alpha == Lower \cup Upper
Digits == {"0", "1", "2", "3", "4", "5", "6", "7", "8", "9"}
\* the class \s of Go's regexp
WhiteSpace == {" ", "\t", "\n", "\f", "\r"}

DigitValue(c) ==
  CASE c = "0" -> 0 [] c = "1" -> 1 [] c = "2" -> 2 [] c = "3" -> 3
    [] c = "4" -> 4 [] c = "5" -> 5 [] c = "6" -> 6 [] c = "7" -> 7
    [] c = "8" -> 8 [] c = "9" -> 9

Drop(s, n) == SubSeq(s, n + 1, Len(s))

(***************************************************************************)
(* Tokenizer (package tokenizer).                                          *)
(***************************************************************************)
\* the number of characters of s from position p on that lie in set
RECURSIVE RunLen(_, _, _)
RunLen(s, p, set) ==
  IF p <= Len(s) /\ s[p] \in set THEN 1 + RunLen(s, p + 1, set) ELSE 0

\* "([^"\\]|\\"|\\\\)*" from position p (after the opening quote): the
\* position of the closing quote, 0 when the literal does not match
RECURSIVE StringEnd(_, _)
StringEnd(s, p) ==
  IF p > Len(s) THEN 0
  ELSE IF s[p] = "\"" THEN p
  ELSE IF s[p] = "\\"
       THEN IF p + 1 <= Len(s) /\ s[p + 1] \in {"\"", "\\"}
            THEN StringEnd(s, p + 2)
            ELSE 0
  ELSE StringEnd(s, p + 1)

\* the length of the match of a token type's regular expression at the
\* start of the non-empty text s, 0 when it does not match there
MatchLen(tokenType, s) ==
  CASE tokenType = "Space" -> RunLen(s, 1, WhiteSpace)
    [] tokenType = "OpenParen" -> IF s[1] = "(" THEN 1 ELSE 0
    [] tokenType = "CloseParen" -> IF s[1] = ")" THEN 1 ELSE 0
    [] tokenType = "Symbol" ->
         IF s[1] \in Alpha THEN 1 + RunLen(s, 2, Alpha \cup {"_"}) ELSE 0
    [] tokenType = "StringLiteral" ->
         IF s[1] = "\"" THEN StringEnd(s, 2) ELSE 0
    [] tokenType = "NumberLiteral" ->
         IF s[1] \in Digits \ {"0"} THEN 1 + RunLen(s, 2, Digits) ELSE 0

subTokenizers ==
  <<"Space", "OpenParen", "CloseParen", "Symbol", "StringLiteral",
    "NumberLiteral">>

TokenTypes == {subTokenizers[k] : k \in DOMAIN subTokenizers}

\* regexpTokenizer.Tokenize
RegexpTokenize(tokenType, s) ==
  LET n == MatchLen(tokenType, s)
  IN  IF n = 0
      THEN [ok |-> FALSE, rest |-> s]
      ELSE [ok |-> TRUE, rest |-> Drop(s, n),
            t |-> [Type |-> tokenType, Str |-> SubSeq(s, 1, n)]]

RECURSIVE tokenize1From(_, _)
tokenize1From(k, s) ==
  IF k > Len(subTokenizers) THEN [ok |-> FALSE, rest |-> s]
  ELSE LET r == RegexpTokenize(subTokenizers[k], s)
       IN  IF r.ok THEN r ELSE tokenize1From(k + 1, s)

tokenize1(s) == tokenize1From(1, s)

RECURSIVE TokenizeLoop(_, _)
TokenizeLoop(res, rest) ==
  IF Len(rest) = 0 THEN [ok |-> TRUE, tokens |-> res]
  ELSE LET r == tokenize1(rest)
       IN  IF ~r.ok THEN [ok |-> FALSE, tokens |-> <<>>]
           ELSE IF Len(r.rest) >= Len(rest)
                THEN [ok |-> FALSE, tokens |-> <<>>]
           ELSE TokenizeLoop(Append(res, r.t), r.rest)

Tokenize(s) == TokenizeLoop(<<>>, s)

(***************************************************************************)
(* S-expressions (package sexpressions).  A list's Value is its sequence   *)
(* of elements; a nil interface Value and an empty slice are both <<>>,    *)
(* which AsList tells apart from nothing else.                             *)
(***************************************************************************)
SList(elems) == [k |-> "ListType", v |-> elems]
SSymbol(str) == [k |-> "SymbolType", v |-> str]
SInt(n) == [k |-> "IntType", v |-> n]
SString(str) == [k |-> "StringType", v |-> str]

AsList(s) ==
  IF s.k # "ListType" THEN [ok |-> FALSE, value |-> <<>>]
  ELSE [ok |-> TRUE, value |-> s.v]

AsSymbol(s) ==
  IF s.k # "SymbolType" THEN [ok |-> FALSE, value |-> <<>>]
  ELSE [ok |-> TRUE, value |-> s.v]

AsInt(s) ==
  IF s.k # "IntType" THEN [ok |-> FALSE, value |-> 0]
  ELSE [ok |-> TRUE, value |-> s.v]

IsNil(s) ==
  LET l == AsList(s) IN l.ok /\ Len(l.value) = 0

(***************************************************************************)
(* Parser (package parser).  A result is ok (a value and the rest of the   *)
(* tokens), err (an ordinary error) or panic (the Go runtime stops the     *)
(* program: an index out of range).                                        *)
(***************************************************************************)
POk(sexp, rest) == [st |-> "ok", sexp |-> sexp, rest |-> rest]
PErr(msg) == [st |-> "err", msg |-> msg]
PPanic == [st |-> "panic", msg |-> "index out of range"]

consume(tokenType, tokens) ==
  IF Len(tokens) = 0
  THEN [ok |-> FALSE, rest |-> <<>>, msg |-> "unexpected end of tokens"]
  ELSE IF tokens[1].Type # tokenType
  THEN [ok |-> FALSE, rest |-> <<>>, msg |-> "got unexpected token"]
  ELSE [ok |-> TRUE, rest |-> Tail(tokens), msg |-> ""]

consumeIf(tokenType, tokens) ==
  LET c == consume(tokenType, tokens)
  IN  IF ~c.ok THEN [rest |-> tokens, ok |-> FALSE]
      ELSE [rest |-> Tail(tokens), ok |-> TRUE]

\* strconv.ParseInt(str, 10, 64) of a NumberLiteral: the decimal value; the
\* literals of the model stay far below 2^63
RECURSIVE ParseInt(_)
ParseInt(str) ==
  IF Len(str) = 0 THEN 0
  ELSE 10 * ParseInt(SubSeq(str, 1, Len(str) - 1)) + DigitValue(str[Len(str)])

RECURSIVE parse1(_)
RECURSIVE parseListLoop(_, _, _, _)

parseList(tokens) ==
  LET c == consume("OpenParen", tokens)
  IN  IF ~c.ok THEN PErr(c.msg)
      ELSE parseListLoop(c.rest, FALSE, <<>>, tokens)

parseListLoop(rest0, needSpace, list, tokens) ==
  IF Len(rest0) = 0 THEN PErr("unmatched parens")
  ELSE
    LET sp == consumeIf("Space", rest0)
        cl == consumeIf("CloseParen", sp.rest)
    IN  IF cl.ok THEN POk(SList(list), cl.rest)
        ELSE IF needSpace /\ ~sp.ok
        \* consume cannot succeed here: the first token is no Space
        THEN LET c == consume("Space", cl.rest)
             IN  IF c.ok THEN PErr("") ELSE PErr(c.msg)
        ELSE LET p == parse1(cl.rest)
             IN  IF p.st # "ok" THEN p
                 ELSE parseListLoop(p.rest, TRUE, Append(list, p.sexp), tokens)

parse1(tokens) ==
  IF Len(tokens) = 0 THEN PPanic
  ELSE
    LET firstToken == tokens[1]
    IN  CASE firstToken.Type = "OpenParen" -> parseList(tokens)
          [] firstToken.Type = "Symbol" ->
               POk(SSymbol(firstToken.Str), Tail(tokens))
          [] firstToken.Type = "StringLiteral" ->
               POk(SString(SubSeq(firstToken.Str, 2, Len(firstToken.Str) - 1)),
                   Tail(tokens))
          [] firstToken.Type = "NumberLiteral" ->
               POk(SInt(ParseInt(firstToken.Str)), Tail(tokens))
          [] OTHER -> PErr("unexpected token")

RECURSIVE ParseLoop(_, _, _)
ParseLoop(result, rest0, needSpace) ==
  IF Len(rest0) = 0 THEN [st |-> "ok", sexps |-> result]
  ELSE
    LET c == IF needSpace THEN consume("Space", rest0)
             ELSE [ok |-> TRUE, rest |-> rest0, msg |-> ""]
    IN  IF ~c.ok THEN [st |-> "err", msg |-> c.msg]
        ELSE LET p == parse1(c.rest)
             IN  IF p.st # "ok" THEN [st |-> p.st, msg |-> p.msg]
                 ELSE IF Len(c.rest) = Len(p.rest)
                 THEN [st |-> "err", msg |-> "parse1 didn't consume any token"]
                 ELSE ParseLoop(Append(result, p.sexp), p.rest, TRUE)

Parse(tokens) == ParseLoop(<<>>, tokens, FALSE)

(***************************************************************************)
(* Runtime values (evaluator.Value).  Only a value of type SExp carries    *)
(* the embedded *sexpressions.SExp; in a Lambda or Primitive value that    *)
(* pointer is nil, and the record has no SExp field.                       *)
(***************************************************************************)
VSExp(s) == [valueType |-> "SExp", SExp |-> s]
VLambda(args, body, env) ==
  [valueType |-> "Lambda", value |-> [args |-> args, body |-> body, env |-> env]]
makePrimitive(p) == [valueType |-> "Primitive", value |-> [name |-> p]]

Nil == VSExp(SList(<<>>))

\* the result of an evaluation: a value, an ordinary error, or a panic of
\* the Go runtime, which ends the program
Ok(v) == [kind |-> "ok", value |-> v]
Err(err, what) == [kind |-> "err", err |-> err, what |-> what]
Panic(err) == [kind |-> "panic", err |-> err]

(***************************************************************************)
(* AST nodes.                                                              *)
(***************************************************************************)
literalAST(value) == [n |-> "literalAST", value |-> value]
lookupAST(symbol) == [n |-> "lookupAST", symbol |-> symbol]
ifAST(condAST, thenAST, elseAST) ==
  [n |-> "ifAST", condAST |-> condAST, thenAST |-> thenAST, elseAST |-> elseAST]
setAST(symbol, valueAST) ==
  [n |-> "setAST", symbol |-> symbol, valueAST |-> valueAST]
lambdaAST(symbols, bodyASTs) ==
  [n |-> "lambdaAST", symbols |-> symbols, bodyASTs |-> bodyASTs]
applicationAST(funcAST, argASTs) ==
  [n |-> "applicationAST", funcAST |-> funcAST, argASTs |-> argASTs]

kIf == <<"i", "f">>
kSet == <<"s", "e", "t">>
kQuote == <<"q", "u", "o", "t", "e">>
kLambda == <<"l", "a", "m", "b", "d", "a">>
kNil == <<"n", "i", "l">>
kAdd == <<"a", "d", "d">>

(***************************************************************************)
(* AST compiler.  A result is [ok |-> TRUE, ast] or [ok |-> FALSE, msg].   *)
(***************************************************************************)
AOk(a) == [ok |-> TRUE, ast |-> a]
AErr(msg) == [ok |-> FALSE, msg |-> msg]

RECURSIVE makeAST(_)
RECURSIVE makeASTs(_, _, _)

\* the loops of makeLambdaAST and makeApplicationAST: compile sexps[i..] in
\* order onto asts, stopping at the first error
makeASTs(sexps, i, asts) ==
  IF i > Len(sexps) THEN [ok |-> TRUE, asts |-> asts]
  ELSE LET r == makeAST(sexps[i])
       IN  IF ~r.ok THEN r
           ELSE makeASTs(sexps, i + 1, Append(asts, r.ast))

makeIfAST(sexps) ==
  IF Len(sexps) # 3 /\ Len(sexps) # 4 THEN AErr("if requires 2 or 3 args")
  ELSE
    LET elseR == IF Len(sexps) = 4 THEN makeAST(sexps[4])
                 ELSE AOk(literalAST(Nil))
    IN  IF ~elseR.ok THEN elseR
        ELSE LET thenR == makeAST(sexps[3])
             IN  IF ~thenR.ok THEN thenR
                 ELSE LET condR == makeAST(sexps[2])
                      IN  IF ~condR.ok THEN condR
                          ELSE AOk(ifAST(condR.ast, thenR.ast, elseR.ast))

makeSetAST(sexps) ==
  IF Len(sexps) # 3 THEN AErr("set requires 2 args")
  ELSE LET sym == AsSymbol(sexps[2])
       IN  IF ~sym.ok THEN AErr("1st argument to set must be a symbol")
           ELSE LET valueR == makeAST(sexps[3])
                IN  IF ~valueR.ok THEN valueR
                    ELSE AOk(setAST(sym.value, valueR.ast))

makeQuoteAST(sexps) ==
  IF Len(sexps) # 2 THEN AErr("quote requires 1 arg")
  ELSE AOk(literalAST(VSExp(sexps[2])))

\* makeLambdaAST as it would be if the body were compiled at the first call
\* of the closure rather than with the lambda expression
makeLambdaASTLazy(sexps) ==
  IF Len(sexps) < 3 THEN AErr("lambda requires at least 2 arguments")
  ELSE
    LET args == AsList(sexps[2])
    IN  IF ~args.ok
        THEN AErr("1st argument to lambda must be a list of symbols")
        ELSE IF \E j \in 1..Len(args.value) : ~AsSymbol(args.value[j]).ok
        THEN AErr("1st argument to lambda must be a list of symbols")
        ELSE AOk(lambdaAST([j \in 1..Len(args.value) |->
                              AsSymbol(args.value[j]).value], <<>>))

makeLambdaAST(sexps) ==
  IF Len(sexps) < 3 THEN AErr("lambda requires at least 2 arguments")
  ELSE
    LET args == AsList(sexps[2])
    IN  IF ~args.ok
        THEN AErr("1st argument to lambda must be a list of symbols")
        ELSE IF \E j \in 1..Len(args.value) : ~AsSymbol(args.value[j]).ok
        THEN AErr("1st argument to lambda must be a list of symbols")
        ELSE LET symbols == [j \in 1..Len(args.value) |->
                               AsSymbol(args.value[j]).value]
                 body == makeASTs(sexps, 3, <<>>)
             IN  IF ~body.ok THEN body
                 ELSE AOk(lambdaAST(symbols, body.asts))

makeApplicationAST(sexps) ==
  IF Len(sexps) = 0
  THEN AErr("function application requires at least 1 argument")
  ELSE LET funcR == makeAST(sexps[1])
       IN  IF ~funcR.ok THEN funcR
           ELSE LET args == makeASTs(sexps, 2, <<>>)
                IN  IF ~args.ok THEN args
                    ELSE AOk(applicationAST(funcR.ast, args.asts))

makeASTFromList(sexps) ==
  IF Len(sexps) = 0 THEN AOk(literalAST(Nil))
  ELSE
    LET first == AsSymbol(sexps[1])
    IN  IF first.ok /\ first.value = kIf THEN makeIfAST(sexps)
        ELSE IF first.ok /\ first.value = kSet THEN makeSetAST(sexps)
        ELSE IF first.ok /\ first.value = kQuote THEN makeQuoteAST(sexps)
        ELSE IF first.ok /\ first.value = kLambda THEN makeLambdaAST(sexps)
        ELSE makeApplicationAST(sexps)

makeAST(sexp) ==
  CASE sexp.k \in {"StringType", "IntType"} -> AOk(literalAST(VSExp(sexp)))
    [] sexp.k = "ListType" -> makeASTFromList(AsList(sexp).value)
    [] sexp.k = "SymbolType" -> AOk(lookupAST(AsSymbol(sexp).value))
    [] OTHER -> AErr("unknown sexpression type")

(***************************************************************************)
(* Environments.  The heap of Env objects is a sequence envs; an *Env is   *)
(* an index into it and 0 is the nil pointer.  The session's top-level     *)
(* environment is envs[1].                                                 *)
(***************************************************************************)
NoVars == [x \in {} |-> x]
Root == 1

NewEnv ==
  [vars |-> (kNil :> Nil) @@ (kAdd :> makePrimitive("add")), parent |-> 0]

\* the heap after allocating an Env with the given parent; the new Env is
\* the last one
newEnvWithParent(envs, parent) ==
  Append(envs, [vars |-> NoVars, parent |-> parent])

\* Lookup as it would be without the walk to the parent
LookupLocal(envs, cursor, symbol) ==
  IF cursor # 0 /\ symbol \in DOMAIN envs[cursor].vars
  THEN [ok |-> TRUE, result |-> envs[cursor].vars[symbol]]
  ELSE [ok |-> FALSE, result |-> Nil]

\* Set as it would be if it wrote to the nearest environment that binds
\* the symbol
RECURSIVE Owner(_, _, _)
Owner(envs, cursor, symbol) ==
  IF cursor = 0 THEN 0
  ELSE IF symbol \in DOMAIN envs[cursor].vars THEN cursor
  ELSE Owner(envs, envs[cursor].parent, symbol)

SetNearest(envs, e, symbol, value) ==
  LET o == Owner(envs, e, symbol)
  IN  [envs EXCEPT ![IF o = 0 THEN e ELSE o].vars = (symbol :> value) @@ @]

RECURSIVE Lookup(_, _, _)
Lookup(envs, cursor, symbol) ==
  IF cursor = 0 THEN [ok |-> FALSE, result |-> Nil]
  ELSE IF symbol \in DOMAIN envs[cursor].vars
  THEN [ok |-> TRUE, result |-> envs[cursor].vars[symbol]]
  ELSE Lookup(envs, envs[cursor].parent, symbol)

Set(envs, e, symbol, value) ==
  [envs EXCEPT ![e].vars = (symbol :> value) @@ @]

(***************************************************************************)
(* Evaluator.  An evaluation threads st = [envs, log]: the heap of         *)
(* environments and the trace of what the evaluation did so far (a record  *)
(* per step, kept for stating properties; the code keeps no such trace).   *)
(* It returns [st, res].  d counts the closure invocations on the stack.   *)
(***************************************************************************)
Note(st, ev) == [st EXCEPT !.log = Append(@, ev)]
Ret(st, res) == [st |-> st, res |-> res]

\* the primitive "add" of NewEnv, from argument i on; AsInt is called
\* through the nil *SExp of a Lambda or Primitive value
RECURSIVE addFrom(_, _, _)
addFrom(args, i, sum) ==
  IF i > Len(args) THEN Ok(VSExp(SInt(sum)))
  ELSE IF args[i].valueType # "SExp" THEN Panic("nil pointer dereference")
  ELSE LET x == AsInt(args[i].SExp)
       IN  IF ~x.ok THEN Err("add argument is not int", i - 1)
           ELSE addFrom(args, i + 1, sum + x.value)

callPrimitive(primitive, args) == addFrom(args, 1, 0)

RECURSIVE Eval(_, _, _, _)
RECURSIVE lambdaArgs(_, _, _, _, _, _, _)
RECURSIVE lambdaBody(_, _, _, _, _, _)
RECURSIVE primitiveArgs(_, _, _, _, _, _, _, _)

EvalLiteral(a, e, st, d) == Ret(st, Ok(a.value))

EvalLookup(a, e, st, d) ==
  LET l == Lookup(st.envs, e, a.symbol)
      res == IF ~l.ok THEN Err("undefined variable", a.symbol)
             ELSE Ok(l.result)
  IN  Ret(Note(st, [op |-> "lookup", env |-> e, symbol |-> a.symbol,
                    res |-> res]),
          res)

\* condValue.IsNil() is (*SExp).IsNil on the embedded pointer
EvalIf(a, e, st, d) ==
  LET c == Eval(a.condAST, e, st, d)
  IN  IF c.res.kind # "ok" THEN c
      ELSE IF c.res.value.valueType # "SExp"
      THEN Ret(Note(c.st, [op |-> "if", env |-> e, cond |-> c.res.value,
                           branch |-> "panic"]),
               Panic("nil pointer dereference"))
      ELSE IF IsNil(c.res.value.SExp)
      THEN Eval(a.elseAST, e,
                Note(c.st, [op |-> "if", env |-> e, cond |-> c.res.value,
                            branch |-> "else"]), d)
      ELSE Eval(a.thenAST, e,
                Note(c.st, [op |-> "if", env |-> e, cond |-> c.res.value,
                            branch |-> "then"]), d)

EvalSet(a, e, st, d) ==
  LET v == Eval(a.valueAST, e, st, d)
  IN  IF v.res.kind # "ok" THEN v
      ELSE Ret([envs |-> Set(v.st.envs, e, a.symbol, v.res.value),
                log |-> Append(v.st.log,
                               [op |-> "set", by |-> "set", env |-> e,
                                symbol |-> a.symbol, value |-> v.res.value])],
               v.res)

\* lambdaAST.Eval as it would be if the closure captured the environment of
\* the evaluation itself
EvalLambdaCapture(a, e, st, d) ==
  Ret(Note(st, [op |-> "lambda", at |-> e, env |-> e]),
      Ok(VLambda(a.symbols, a.bodyASTs, e)))

EvalLambda(a, e, st, d) ==
  LET envs == newEnvWithParent(st.envs, e)
  IN  Ret([envs |-> envs,
           log |-> Append(st.log, [op |-> "lambda", at |-> e,
                                   env |-> Len(envs)])],
          Ok(VLambda(a.symbols, a.bodyASTs, Len(envs))))

\* the body loop of EvalLambdaApplication, from body[i] on
lambdaBody(lambda, i, applicationEnv, st, d, value) ==
  IF i > Len(lambda.body) THEN Ret(st, Ok(value))
  ELSE LET r == Eval(lambda.body[i], applicationEnv, st, d)
       IN  IF r.res.kind # "ok" THEN r
           ELSE lambdaBody(lambda, i + 1, applicationEnv, r.st, d, r.res.value)

\* the argument loop of EvalLambdaApplication, from argument i on
lambdaArgs(a, e, lambda, i, st, d, id) ==
  IF i > Len(lambda.args)
  THEN IF d >= MaxDepth
       THEN Ret(st, Panic("stack overflow"))
       ELSE lambdaBody(lambda, 1, lambda.env,
                       Note(st, [op |-> "invoke", app |-> id,
                                 env |-> lambda.env]),
                       d + 1, Nil)
  ELSE LET r == Eval(a.argASTs[i], e,
                     Note(st, [op |-> "arg", app |-> id, index |-> i,
                               env |-> e]), d)
       IN  IF r.res.kind # "ok" THEN r
           ELSE lambdaArgs(a, e, lambda, i + 1,
                  [envs |-> Set(r.st.envs, lambda.env, lambda.args[i],
                                r.res.value),
                   log |-> Append(r.st.log,
                                  [op |-> "set", by |-> "param",
                                   env |-> lambda.env,
                                   symbol |-> lambda.args[i],
                                   value |-> r.res.value])],
                  d, id)

\* EvalLambdaApplication as it would be if the arguments were evaluated
\* before the parameter count is compared
RECURSIVE evalArgs(_, _, _, _, _, _)
evalArgs(a, e, i, st, d, id) ==
  IF i > Len(a.argASTs) THEN Ret(st, Ok(Nil))
  ELSE LET r == Eval(a.argASTs[i], e,
                     Note(st, [op |-> "arg", app |-> id, index |-> i,
                               env |-> e]), d)
       IN  IF r.res.kind # "ok" THEN r ELSE evalArgs(a, e, i + 1, r.st, d, id)

EvalLambdaApplicationArgsFirst(a, e, lambda, st, d, id) ==
  IF Len(lambda.args) # Len(a.argASTs)
  THEN LET r == evalArgs(a, e, 1, st, d, id)
       IN  IF r.res.kind # "ok" THEN r
           ELSE Ret(Note(r.st, [op |-> "reject", app |-> id,
                                why |-> "ArityMismatch"]),
                    Err("requires arguments",
                        <<Len(lambda.args), Len(a.argASTs)>>))
  ELSE lambdaArgs(a, e, lambda, 1, st, d, id)

EvalLambdaApplication(a, e, lambda, st, d, id) ==
  IF Len(lambda.args) # Len(a.argASTs)
  THEN Ret(Note(st, [op |-> "reject", app |-> id, why |-> "ArityMismatch"]),
           Err("requires arguments", <<Len(lambda.args), Len(a.argASTs)>>))
  ELSE lambdaArgs(a, e, lambda, 1, st, d, id)

\* the argument loop of EvalPrimitiveApplication, from argument i on
primitiveArgs(a, e, primitive, i, args, st, d, id) ==
  IF i > Len(a.argASTs)
  THEN Ret(Note(st, [op |-> "invoke", app |-> id, env |-> 0]),
           callPrimitive(primitive, args))
  ELSE LET r == Eval(a.argASTs[i], e,
                     Note(st, [op |-> "arg", app |-> id, index |-> i,
                               env |-> e]), d)
       IN  IF r.res.kind # "ok" THEN r
           ELSE primitiveArgs(a, e, primitive, i + 1,
                              Append(args, r.res.value), r.st, d, id)

EvalPrimitiveApplication(a, e, primitive, st, d, id) ==
  primitiveArgs(a, e, primitive, 1, <<>>, st, d, id)

\* an application is identified in the trace by the position of its "app"
\* record
EvalApplication(a, e, st, d) ==
  LET id == Len(st.log) + 1
      f == Eval(a.funcAST, e,
                Note(st, [op |-> "app", env |-> e, nargs |-> Len(a.argASTs)]),
                d)
  IN  IF f.res.kind # "ok" THEN f
      ELSE IF f.res.value.valueType = "Lambda"
      THEN EvalLambdaApplication(a, e, f.res.value.value,
             Note(f.st, [op |-> "dispatch", app |-> id, target |-> "Lambda"]),
             d, id)
      ELSE IF f.res.value.valueType = "Primitive"
      THEN EvalPrimitiveApplication(a, e, f.res.value.value,
             Note(f.st, [op |-> "dispatch", app |-> id,
                         target |-> "Primitive"]),
             d, id)
      ELSE Ret(Note(f.st, [op |-> "reject", app |-> id,
                           why |-> "NotApplicable"]),
               Err("Unsupported application function", f.res.value))

\* ast.Eval: the dispatch on the node's dynamic type
Eval(a, e, st, d) ==
  CASE a.n = "literalAST" -> EvalLiteral(a, e, st, d)
    [] a.n = "lookupAST" -> EvalLookup(a, e, st, d)
    [] a.n = "ifAST" -> EvalIf(a, e, st, d)
    [] a.n = "setAST" -> EvalSet(a, e, st, d)
    [] a.n = "lambdaAST" -> EvalLambda(a, e, st, d)
    [] a.n = "applicationAST" -> EvalApplication(a, e, st, d)

\* Env.Eval as it would be if a failed evaluation restored the environments
EnvEvalRollback(envs, e, sexp) ==
  LET c == makeAST(sexp)
  IN  IF ~c.ok THEN Ret([envs |-> envs, log |-> <<>>], Err("makeAst", c.msg))
      ELSE LET r == Eval(c.ast, e, [envs |-> envs, log |-> <<>>], 0)
           IN  IF r.res.kind = "err"
               THEN Ret([envs |-> envs, log |-> r.st.log], r.res)
               ELSE r

\* Env.Eval on the heap envs: compile, then evaluate
EnvEval(envs, e, sexp) ==
  LET c == makeAST(sexp)
  IN  IF ~c.ok THEN Ret([envs |-> envs, log |-> <<>>], Err("makeAst", c.msg))
      ELSE Eval(c.ast, e, [envs |-> envs, log |-> <<>>], 0)

(***************************************************************************)
(* Input.  Source text is written with Form (a parenthesised list, its     *)
(* elements separated by one space) and Text (the expressions of a line,   *)
(* separated by one space).                                                *)
(***************************************************************************)
RECURSIVE Join(_, _)
Join(parts, sep) ==
  IF Len(parts) = 0 THEN <<>>
  ELSE IF Len(parts) = 1 THEN parts[1]
  ELSE parts[1] \o sep \o Join(Tail(parts), sep)

Form(elems) == <<"(">> \o Join(elems, <<" ">>) \o <<")">>
Text(exprs) == Join(exprs, <<" ">>)
EmptyString == <<"\"", "\"">>

\* (lambda (params...) body...)
LambdaForm(params, body) == Form(<<kLambda, Form(params)>> \o body)
SetForm(symbol, expr) == Form(<<kSet, symbol, expr>>)

\* the symbols, literals and small forms the lines are made of
sa == <<"a">>
sb == <<"b">>
sf == <<"f">>
sg == <<"g">>
sk == <<"k">>
sp == <<"p">>
sr == <<"r">>
su == <<"u">>
sw == <<"w">>
sx == <<"x">>
sy == <<"y">>
sz == <<"z">>
sv == <<"v">>
sc == <<"c">>
sh == <<"h">>
n1 == <<"1">>
n2 == <<"2">>
n3 == <<"3">>
n4 == <<"4">>
n5 == <<"5">>
n9 == <<"9">>
Unit == Form(<<>>)
AddNone == Form(<<kAdd>>)

\* the lines a session may read
Lines ==
  { \* closures, free variables and set in a closure body
    Text(<<SetForm(sx, n5), SetForm(sf, LambdaForm(<<>>, <<sx>>)),
           SetForm(sg, LambdaForm(<<>>, <<SetForm(sx, n2)>>))>>),
    Text(<<SetForm(sx, n9), Form(<<sf>>)>>),
    Text(<<Form(<<sg>>), Form(<<sf>>), sx>>),
    \* an error in the middle of a line
    Text(<<SetForm(sx, n1), su, SetForm(sy, n2)>>),
    \* if on every kind of condition value
    Text(<<Form(<<kIf, Unit, SetForm(sx, n1), SetForm(sy, n2)>>),
           Form(<<kIf, AddNone, n1, n2>>)>>),
    Text(<<Form(<<kIf, EmptyString, n1, n2>>),
           Form(<<kIf, Form(<<kQuote, Form(<<sa>>)>>), n1>>),
           Form(<<kIf, kNil, n1>>),
           Form(<<kIf, sx, n1, n2>>)>>),
    Text(<<Form(<<kIf, kAdd, n1, n2>>)>>),
    Text(<<Form(<<kIf, LambdaForm(<<sa>>, <<sa>>), n1, n2>>)>>),
    \* applications: every kind of target, arguments with side effects
    Text(<<Form(<<LambdaForm(<<>>, <<n1>>), SetForm(sx, n1)>>),
           Form(<<AddNone, SetForm(sy, n1)>>)>>),
    Text(<<Form(<<LambdaForm(<<sa, sb>>, <<sb>>), SetForm(sx, n3),
                  SetForm(sx, n4)>>)>>),
    Text(<<Form(<<LambdaForm(<<sa, sb>>, <<sa>>), SetForm(sx, n3), su>>),
           Form(<<kAdd, SetForm(sx, n1), SetForm(sx, n2)>>)>>),
    \* a closure that calls itself, and one whose body sets a variable
    Text(<<SetForm(sr, LambdaForm(<<sa>>,
                     <<Form(<<kIf, sa, Form(<<sr, Unit>>)>>), sa>>)),
           Form(<<sr, n1>>)>>),
    Text(<<SetForm(sk, LambdaForm(<<sp>>,
                     <<Form(<<kIf, sp, SetForm(sz, n1)>>), sz>>)),
           Form(<<sk, n1>>), Form(<<sk, Unit>>), sp>>),
    Text(<<SetForm(sw, LambdaForm(<<>>, <<Form(<<sw>>)>>)), Form(<<sw>>)>>),
    \* malformed special forms
    Text(<<Form(<<kIf, sx>>), Form(<<kSet, sx>>), Form(<<kSet, n1, n2>>),
           Form(<<kQuote>>), Form(<<kLambda, Form(<<sa>>)>>)>>),
    Text(<<Form(<<kLambda, sa, n1>>), Form(<<kLambda, Form(<<n1>>), sa>>),
           Form(<<kQuote, Form(<<kIf>>)>>)>>),
    Text(<<Form(<<kAdd, SetForm(sx, n1),
                  LambdaForm(<<sa>>, <<Form(<<kIf>>)>>)>>),
           Form(<<kIf, Unit, SetForm(sx, n1), Form(<<kSet>>)>>)>>),
    \* runtime errors after a set
    Text(<<Form(<<kAdd, SetForm(sx, n1), su>>),
           Form(<<kAdd, SetForm(sy, n2), EmptyString>>)>>),
    \* a closure whose body counts, and one that calls itself with its
    \* parameters exchanged
    Text(<<SetForm(sv, n1),
           SetForm(sc, LambdaForm(<<>>,
                     <<SetForm(sv, Form(<<kAdd, sv, n1>>)), sv>>)),
           Form(<<sc>>), Form(<<sc>>)>>),
    Text(<<SetForm(sh, LambdaForm(<<sa, sb>>,
                     <<Form(<<kIf, sa, Form(<<sh, sb, sa>>), sb>>)>>)),
           Form(<<sh, n1, Unit>>)>>),
    \* text the tokenizer or the parser rejects, and the empty line
    <<"(", "a", " ">>,
    <<"a", " ">>,
    <<"(", "a">>,
    <<"(", "a", "\"", "b", "\"", ")">>,
    <<"0">>,
    <<>>
  }

(***************************************************************************)
(* The session (main).                                                     *)
(***************************************************************************)
VARIABLES
  envs,       \* the heap of environments; main's env is envs[Root]
  sexps,      \* the expressions parsed from the current line
  i,          \* the index of the next expression of sexps to evaluate
  evaluated,  \* the results of the current line's evaluations so far
  last,       \* what the last step did
  lines,      \* the number of lines read so far
  crashed,    \* the Go runtime has stopped the program with a panic
  text,       \* SpecParse: the text to tokenize and parse
  parsed,     \* SpecParse: the result of Tokenize and Parse on text
  arg,        \* SpecAdd, SpecRender: the input of the function applied
  out         \* SpecAdd, SpecRender: what the function returned

vars ==
  <<envs, sexps, i, evaluated, last, lines, crashed, text, parsed, arg, out>>

NoStep(step, outcome, before) ==
  [step |-> step, outcome |-> outcome, sexp |-> SList(<<>>), index |-> 0,
   res |-> Ok(Nil), log |-> <<>>, before |-> before]

Init ==
  /\ envs = <<NewEnv>>
  /\ sexps = <<>>
  /\ i = 1
  /\ evaluated = <<>>
  /\ last = NoStep("init", "ok", <<NewEnv>>)
  /\ lines = 0
  /\ crashed = FALSE
  /\ text = <<>>
  /\ parsed = [st |-> "none"]
  /\ arg = <<>>
  /\ out = [st |-> "none"]

\* one iteration of the scanner loop up to the loop over sexps: a tokenize
\* or parse error is printed and the next line is read
ReadLine(line) ==
  /\ ~crashed
  /\ i > Len(sexps)
  /\ lines < MaxLines
  /\ lines' = lines + 1
  /\ LET t == Tokenize(line)
         p == IF t.ok THEN Parse(t.tokens) ELSE [st |-> "tokerr"]
     IN  /\ sexps' = IF p.st = "ok" THEN p.sexps ELSE <<>>
         /\ crashed' = (p.st = "panic")
         /\ last' = NoStep("read", p.st, envs)
  /\ i' = 1
  /\ evaluated' = <<>>
  /\ UNCHANGED <<envs, text, parsed, arg, out>>

\* EvalNext as it would be with break in place of continue: an evaluation
\* error ends the loop over sexps
EvalNextBreak ==
  /\ ~crashed
  /\ i <= Len(sexps)
  /\ LET r == EnvEval(envs, Root, sexps[i])
     IN  /\ envs' = r.st.envs
         /\ crashed' = (r.res.kind = "panic")
         /\ evaluated' = Append(evaluated, [index |-> i, kind |-> r.res.kind])
         /\ last' = [step |-> "eval", outcome |-> r.res.kind,
                     sexp |-> sexps[i], index |-> i, res |-> r.res,
                     log |-> r.st.log, before |-> envs]
         /\ i' = IF r.res.kind = "err" THEN Len(sexps) + 1 ELSE i + 1
  /\ UNCHANGED <<sexps, lines, text, parsed, arg, out>>

\* one iteration of the loop over sexps: an evaluation error is printed and
\* the loop continues
EvalNext ==
  /\ ~crashed
  /\ i <= Len(sexps)
  /\ LET r == EnvEval(envs, Root, sexps[i])
     IN  /\ envs' = r.st.envs
         /\ crashed' = (r.res.kind = "panic")
         /\ evaluated' = Append(evaluated, [index |-> i, kind |-> r.res.kind])
         /\ last' = [step |-> "eval", outcome |-> r.res.kind,
                     sexp |-> sexps[i], index |-> i, res |-> r.res,
                     log |-> r.st.log, before |-> envs]
  /\ i' = i + 1
  /\ UNCHANGED <<sexps, lines, text, parsed, arg, out>>

\* SpecParse: Tokenize and Parse as main applies them to one line of text
ParseChars == {"(", ")", " ", "a", "1", "\""}
Texts == UNION {[1..n -> ParseChars] : n \in 0..MaxText}

InitParse ==
  /\ envs = <<NewEnv>>
  /\ sexps = <<>>
  /\ i = 1
  /\ evaluated = <<>>
  /\ last = NoStep("init", "ok", <<NewEnv>>)
  /\ lines = 0
  /\ crashed = FALSE
  /\ text \in Texts
  /\ parsed = [st |-> "none"]
  /\ arg = <<>>
  /\ out = [st |-> "none"]

ParseText ==
  /\ parsed.st = "none"
  /\ parsed' = LET t == Tokenize(text)
               IN  IF t.ok THEN Parse(t.tokens) ELSE [st |-> "tokerr"]
  /\ UNCHANGED <<envs, sexps, i, evaluated, last, lines, crashed, text, arg,
                 out>>

SpecParse == InitParse /\ [][ParseText]_vars

\* SpecAdd: the primitive add as EvalPrimitiveApplication calls it, on
\* every list of up to MaxArgs values of every kind
AddValues ==
  { VSExp(SInt(1)), VSExp(SInt(2)), VSExp(SInt(0)),
    VSExp(SString(<<>>)), VSExp(SString(<<"a">>)),
    Nil, VSExp(SList(<<SInt(1)>>)), VSExp(SSymbol(sa)),
    VLambda(<<sa>>, <<lookupAST(sa)>>, 2), makePrimitive("add") }
ArgLists == UNION {[1..n -> AddValues] : n \in 0..MaxArgs}

InitAdd ==
  /\ envs = <<NewEnv>>
  /\ sexps = <<>>
  /\ i = 1
  /\ evaluated = <<>>
  /\ last = NoStep("init", "ok", <<NewEnv>>)
  /\ lines = 0
  /\ crashed = FALSE
  /\ text = <<>>
  /\ parsed = [st |-> "none"]
  /\ arg \in ArgLists
  /\ out = [st |-> "none"]

CallAdd ==
  /\ out.st = "none"
  /\ out' = [st |-> "add", res |-> callPrimitive(NewEnv.vars[kAdd], arg)]
  /\ UNCHANGED <<envs, sexps, i, evaluated, last, lines, crashed, text,
                 parsed, arg>>

SpecAdd == InitAdd /\ [][CallAdd]_vars

\* fmt's %v of an int that is not negative: its decimal digits
RECURSIVE FormatInt(_)
FormatInt(n) ==
  LET d == CHOOSE c \in Digits : DigitValue(c) = n % 10
  IN  IF n < 10 THEN <<d>> ELSE Append(FormatInt(n \div 10), d)

\* fmt's %q of a string of printable ASCII characters: in double quotes,
\* with a backslash before every double quote and backslash
RECURSIVE Escape(_)
Escape(str) ==
  IF str = <<>> THEN <<>>
  ELSE (IF str[1] \in {"\"", "\\"} THEN <<"\\", str[1]>> ELSE <<str[1]>>)
         \o Escape(Tail(str))

Quote(str) == <<"\"">> \o Escape(str) \o <<"\"">>

\* (*SExp).String
RECURSIVE String(_)
String(s) ==
  IF AsList(s).ok
  THEN <<"(">> \o Join([t \in DOMAIN s.v |-> String(s.v[t])], <<" ">>)
         \o <<")">>
  ELSE IF AsInt(s).ok THEN FormatInt(s.v)
  ELSE IF AsSymbol(s).ok THEN s.v
  ELSE Quote(s.v)

\* (*Value).String
ValueString(v) ==
  CASE v.valueType = "SExp" -> String(v.SExp)
    [] v.valueType = "Lambda" ->
         <<"#", "<", "l", "a", "m", "b", "d", "a", ">">>
    [] OTHER -> <<>>

\* SpecRender: a value printed by main and the printed text read back by
\* Tokenize and Parse.  The integers are those add returns, the strings
\* those parse1 takes from a string literal: characters other than the
\* double quote and the backslash, and the sequences \" and \\
StringUnits == {<<"a">>, <<" ">>, <<"\\", "\"">>, <<"\\", "\\">>}
RECURSIVE Flatten(_)
Flatten(units) ==
  IF units = <<>> THEN <<>> ELSE units[1] \o Flatten(Tail(units))
RenderValues ==
  {VSExp(SInt(n)) : n \in 0..MaxInt}
    \cup {VSExp(SString(Flatten(u))) :
            u \in UNION {[1..n -> StringUnits] : n \in 0..MaxUnits}}

InitRender ==
  /\ envs = <<NewEnv>>
  /\ sexps = <<>>
  /\ i = 1
  /\ evaluated = <<>>
  /\ last = NoStep("init", "ok", <<NewEnv>>)
  /\ lines = 0
  /\ crashed = FALSE
  /\ text = <<>>
  /\ parsed = [st |-> "none"]
  /\ arg \in RenderValues
  /\ out = [st |-> "none"]

Render ==
  /\ out.st = "none"
  /\ out' = LET str == ValueString(arg)
                t == Tokenize(str)
            IN  [st |-> "render", str |-> str,
                 back |-> IF t.ok THEN Parse(t.tokens) ELSE [st |-> "tokerr"]]
  /\ UNCHANGED <<envs, sexps, i, evaluated, last, lines, crashed, text,
                 parsed, arg>>

SpecRender == InitRender /\ [][Render]_vars

Next ==
  \/ \E line \in Lines : ReadLine(line)
  \/ EvalNext

Spec == Init /\ [][Next]_vars

(***************************************************************************)
(* Properties.  They speak of the last step: last.sexp is the expression   *)
(* evaluated, last.before the heap before it, envs the heap after it,      *)
(* last.res its result and last.log the trace of the evaluation.           *)
(***************************************************************************)
Log == last.log
Evaluated == last.step = "eval"

\* the value is the empty list
IsEmptyList(v) ==
  v.valueType = "SExp" /\ v.SExp.k = "ListType" /\ v.SExp.v = <<>>

\* C1: whatever value the condition of an If evaluates to, the evaluation
\* does not crash, and it goes on with the else branch exactly when that
\* value is the empty list and with the then branch otherwise
C1_IfTruthiness ==
  /\ \A j \in DOMAIN Log :
       Log[j].op = "if" =>
         /\ Log[j].branch \in {"then", "else"}
         /\ Log[j].branch = "else" <=> IsEmptyList(Log[j].cond)
  /\ (Evaluated /\ \E j \in DOMAIN Log : Log[j].op = "if") =>
       last.res.kind \in {"ok", "err"}

\* C2 as claimed: once an expression of a line has failed, no later
\* expression of that line is evaluated
C2_StopsAtFirstError ==
  \A j, k \in DOMAIN evaluated : j < k => evaluated[j].kind # "err"

\* C2 as amended: the expressions of a line are evaluated one by one in
\* order, the j-th evaluation being that of the j-th expression, whether or
\* not an earlier one returned an error; only a panic ends the loop
C2_EvaluatesWholeLine ==
  /\ i \in 1..(Len(sexps) + 1)
  /\ \A j \in DOMAIN evaluated : evaluated[j].index = j
  /\ ~crashed => Len(evaluated) = i - 1
  /\ Evaluated => last.sexp = sexps[last.index] /\ last.index = i - 1

\* a line on which an expression failed and a later one was evaluated, up
\* to its end
C2_Witness ==
  /\ ~crashed
  /\ i > Len(sexps)
  /\ \E j, k \in DOMAIN evaluated :
       j < k /\ evaluated[j].kind = "err" /\ evaluated[k].kind = "ok"

\* C10: Tokenize followed by Parse returns expressions or an error on
\* every text; it never panics
C10_ParseNeverPanics ==
  parsed.st \in {"none", "tokerr", "ok", "err"}

\* the positions in the trace of the steps of application id
ArgPos(id) == {j \in DOMAIN Log : Log[j].op = "arg" /\ Log[j].app = id}
DecidedPos(id) ==
  {j \in DOMAIN Log :
     /\ Log[j].op \in {"dispatch", "reject"}
     /\ Log[j].app = id
     /\ Log[j].op = "reject" => Log[j].why = "NotApplicable"}
RejectPos(id) == {j \in DOMAIN Log : Log[j].op = "reject" /\ Log[j].app = id}
InvokePos(id) == {j \in DOMAIN Log : Log[j].op = "invoke" /\ Log[j].app = id}
Apps == {j \in DOMAIN Log : Log[j].op = "app"}

\* C3 as claimed: when an application is decided, be it rejected
\* (ArityMismatch, not applicable) or its target invoked, each of its
\* argument expressions has been evaluated, once and in order
C3_ArgsBeforeDispatch ==
  \A j \in DOMAIN Log :
    Log[j].op \in {"reject", "invoke"} =>
      LET before == {k \in ArgPos(Log[j].app) : k < j}
      IN  /\ {Log[k].index : k \in before} = 1..Log[Log[j].app].nargs
          /\ Cardinality(before) = Log[Log[j].app].nargs

\* C3 as amended: the function position is evaluated first and the target
\* is dispatched on before any argument; a rejected application
\* (ArityMismatch, not applicable) evaluates no argument; otherwise the
\* arguments are evaluated in the caller's environment left to right, each
\* at most once, and all of them before the primitive or the body runs
C3_DispatchBeforeArgs ==
  \A id \in Apps :
    /\ Cardinality(DecidedPos(id)) <= 1
    /\ \A k \in ArgPos(id) : \E j \in DecidedPos(id) : j < k
    /\ RejectPos(id) # {} => ArgPos(id) = {} /\ InvokePos(id) = {}
    /\ \A k \in ArgPos(id) : Log[k].env = Log[id].env
    /\ \A k1, k2 \in ArgPos(id) : k1 < k2 => Log[k1].index < Log[k2].index
    /\ {Log[k].index : k \in ArgPos(id)} = 1..Cardinality(ArgPos(id))
    /\ Cardinality(ArgPos(id)) <= Log[id].nargs
    /\ \A j \in InvokePos(id) :
         /\ Cardinality(ArgPos(id)) = Log[id].nargs
         /\ \A k \in ArgPos(id) : k < j

\* an application with an argument that sets a variable is rejected for
\* its argument count, and nothing was set
C3_Witness ==
  /\ Evaluated
  /\ last.sexp.k = "ListType"
  /\ \E t \in DOMAIN last.sexp.v :
       /\ t > 1
       /\ last.sexp.v[t].k = "ListType"
       /\ Len(last.sexp.v[t].v) = 3
       /\ last.sexp.v[t].v[1] = SSymbol(kSet)
  /\ \E j \in DOMAIN Log :
       /\ Log[j].op = "reject"
       /\ Log[j].why = "ArityMismatch"
       /\ Log[j].app = 1
  /\ \A j \in DOMAIN Log : Log[j].op # "set"

\* the heap after the recorded steps log[1..n], from the heap before them
ApplyEvent(heap, ev) ==
  CASE ev.op = "set" ->
         [heap EXCEPT ![ev.env].vars =
            [s \in DOMAIN @ \cup {ev.symbol} |->
               IF s = ev.symbol THEN ev.value ELSE @[s]]]
    [] ev.op = "lambda" -> Append(heap, [vars |-> NoVars, parent |-> ev.at])
    [] OTHER -> heap

RECURSIVE HeapAfter(_, _, _)
HeapAfter(heap, log, n) ==
  IF n = 0 THEN heap ELSE ApplyEvent(HeapAfter(heap, log, n - 1), log[n])

\* the closures bound in the table of environment P
ClosuresIn(heap, P) ==
  {heap[P].vars[s] : s \in {t \in DOMAIN heap[P].vars :
                              heap[P].vars[t].valueType = "Lambda"}}

\* step j is a set, executed in a closure's environment, of a variable that
\* the scope the closure was created in binds, and the last write of that
\* variable's name in the evaluation
SetInBody(j) ==
  /\ Log[j].op = "set"
  /\ Log[j].by = "set"
  /\ Log[j].env # Root
  /\ Log[j].symbol \in DOMAIN envs[envs[Log[j].env].parent].vars
  /\ \A k \in DOMAIN Log :
       k > j => ~(Log[k].op = "set" /\ Log[k].symbol = Log[j].symbol)

\* C4 as claimed: after a closure body has set a variable v that the scope
\* of its creation binds, a lookup of v in that scope, and in the
\* environment of every closure bound in that scope, yields the new value
C4_SharedScope ==
  \A j \in DOMAIN Log :
    SetInBody(j) =>
      LET P == envs[Log[j].env].parent
      IN  /\ Lookup(envs, P, Log[j].symbol).result = Log[j].value
          /\ \A c \in ClosuresIn(envs, P) :
               Lookup(envs, c.value.env, Log[j].symbol).result = Log[j].value

\* C4 as amended: every closure has an environment of its own, new at the
\* evaluation of its lambda expression, whose parent is the environment of
\* that evaluation; a set of v in a closure body binds v in the closure's
\* own environment and leaves the scope's binding of v, and what the other
\* closures of the scope read for v, as they were
C4_OwnEnvironment ==
  /\ \A j \in DOMAIN Log :
       Log[j].op = "lambda" =>
         /\ Log[j].env > Len(last.before)
         /\ Log[j].env <= Len(envs)
         /\ envs[Log[j].env].parent = Log[j].at
         /\ \A k \in DOMAIN Log :
              (k # j /\ Log[k].op = "lambda") => Log[k].env # Log[j].env
  /\ \A j \in DOMAIN Log :
       SetInBody(j) =>
         LET P == envs[Log[j].env].parent
             H == HeapAfter(last.before, Log, j - 1)
         IN  /\ Log[j].symbol \in DOMAIN envs[Log[j].env].vars
             /\ envs[Log[j].env].vars[Log[j].symbol] = Log[j].value
             /\ P <= Len(H)
             /\ Log[j].symbol \in DOMAIN H[P].vars
             /\ envs[P].vars[Log[j].symbol] = H[P].vars[Log[j].symbol]
             /\ \A c \in ClosuresIn(envs, P) :
                  (c.value.env # Log[j].env /\ c.value.env <= Len(H)) =>
                    Lookup(envs, c.value.env, Log[j].symbol)
                      = Lookup(H, c.value.env, Log[j].symbol)

\* a closure body has set a variable of the scope to another value than
\* the scope's, and the scope binds a second closure
C4_Witness ==
  \E j \in DOMAIN Log :
    /\ SetInBody(j)
    /\ LET P == envs[Log[j].env].parent
       IN  /\ envs[P].vars[Log[j].symbol] # Log[j].value
           /\ \E c \in ClosuresIn(envs, P) :
                /\ c.value.env # Log[j].env
                /\ Lookup(envs, c.value.env, Log[j].symbol).result
                     = envs[P].vars[Log[j].symbol]

\* step j runs the body of a closure
ClosureInvoke(j) == Log[j].op = "invoke" /\ Log[j].env # 0

\* the evaluated expression is (h n ...), h bound at the root to a closure
\* of as many parameters whose body ends in a lookup of its first
\* parameter and nowhere sets a variable
CallReturningFirstParam ==
  /\ Evaluated
  /\ last.sexp.k = "ListType"
  /\ Len(last.sexp.v) >= 2
  /\ last.sexp.v[1].k = "SymbolType"
  /\ \A t \in 2..Len(last.sexp.v) : last.sexp.v[t].k = "IntType"
  /\ last.sexp.v[1].v \in DOMAIN last.before[Root].vars
  /\ LET c == last.before[Root].vars[last.sexp.v[1].v]
     IN  /\ c.valueType = "Lambda"
         /\ Len(c.value.args) = Len(last.sexp.v) - 1
         /\ Len(c.value.body) >= 1
         /\ c.value.body[Len(c.value.body)] = lookupAST(c.value.args[1])
  /\ \A j \in DOMAIN Log : Log[j].op = "set" => Log[j].by = "param"
  /\ last.res.kind = "ok"

\* the parameters bound for the invocation that starts at step j
ParamsOf(j) ==
  {Log[k].symbol :
     k \in {k \in 1..j :
              /\ Log[k].op = "set"
              /\ Log[k].by = "param"
              /\ Log[k].env = Log[j].env
              /\ \A q \in DecidedPos(Log[j].app) : q < k}}

\* C5 as claimed: every invocation of a closure (in an evaluation that
\* ends with a value or an error) runs its body in an environment of its
\* own: no two invocations run in the same environment,
\* the environment holds, when the body starts, the parameters of this
\* invocation and nothing that another invocation has bound, and a
\* recursive call leaves the caller's parameters as they were
C5_FreshEnvPerInvocation ==
  /\ \A j \in DOMAIN Log :
       (ClosureInvoke(j) /\ last.res.kind # "panic") =>
         /\ \A k \in DOMAIN Log :
              (k # j /\ ClosureInvoke(k)) => Log[k].env # Log[j].env
         /\ DOMAIN HeapAfter(last.before, Log, j - 1)[Log[j].env].vars
              \subseteq ParamsOf(j)
  /\ CallReturningFirstParam => last.res = Ok(VSExp(last.sexp.v[2]))

\* step j binds a parameter, and no later step writes that name
ParamBound(j) ==
  /\ Log[j].op = "set"
  /\ Log[j].by = "param"
  /\ \A k \in DOMAIN Log :
       k > j => ~(Log[k].op = "set" /\ Log[k].symbol = Log[j].symbol)

\* C6 as claimed: the evaluation of a lambda expression creates no
\* environment, the closure capturing the environment of the evaluation
\* itself, and a call binds the parameters in that defining environment
C6_NoEnvAtLambda ==
  /\ \A j \in DOMAIN Log : Log[j].op = "lambda" => Log[j].env = Log[j].at
  /\ (Evaluated /\ \A j \in DOMAIN Log : ~ClosureInvoke(j))
       => Len(envs) = Len(last.before)
  /\ \A j \in DOMAIN Log :
       ParamBound(j) =>
         Lookup(envs, envs[Log[j].env].parent, Log[j].symbol)
           = [ok |-> TRUE, result |-> Log[j].value]

\* C6 as amended: the evaluation of a lambda expression runs no body code
\* and creates one environment, empty, whose parent is the environment of
\* the evaluation; nothing else creates an environment; a call binds the
\* parameters in that environment of the closure and leaves the defining
\* environment's binding of the name as it was
C6_EnvAtLambda ==
  /\ Evaluated =>
       Len(envs) - Len(last.before)
         = Cardinality({j \in DOMAIN Log : Log[j].op = "lambda"})
  /\ \A j \in DOMAIN Log :
       Log[j].op = "lambda" =>
         /\ Log[j].env # Log[j].at
         /\ Log[j].env
              = Len(last.before)
                  + Cardinality({k \in 1..j : Log[k].op = "lambda"})
         /\ envs[Log[j].env].parent = Log[j].at
         /\ \A s \in DOMAIN envs[Log[j].env].vars :
              \E k \in DOMAIN Log :
                /\ k > j
                /\ Log[k].op = "set"
                /\ Log[k].env = Log[j].env
                /\ Log[k].symbol = s
  /\ (/\ Evaluated
      /\ last.sexp.k = "ListType"
      /\ Len(last.sexp.v) = 3
      /\ last.sexp.v[1] = SSymbol(kSet)
      /\ last.sexp.v[3].k = "ListType"
      /\ Len(last.sexp.v[3].v) >= 1
      /\ last.sexp.v[3].v[1] = SSymbol(kLambda)
      /\ last.res.kind = "ok")
       => /\ Len(Log) = 2
          /\ Log[1] = [op |-> "lambda", at |-> Root, env |-> Len(envs)]
          /\ Log[2].op = "set"
          /\ envs[Len(envs)] = [vars |-> NoVars, parent |-> Root]
  /\ \A j \in DOMAIN Log :
       ParamBound(j) =>
         LET E == Log[j].env
             D == envs[E].parent
             H == HeapAfter(last.before, Log, j - 1)
         IN  /\ E # Root
             /\ D # 0
             /\ Log[j].symbol \in DOMAIN envs[E].vars
             /\ envs[E].vars[Log[j].symbol] = Log[j].value
             /\ D <= Len(H)
             /\ (Log[j].symbol \in DOMAIN envs[D].vars)
                  <=> (Log[j].symbol \in DOMAIN H[D].vars)
             /\ Log[j].symbol \in DOMAIN envs[D].vars
                  => envs[D].vars[Log[j].symbol] = H[D].vars[Log[j].symbol]

\* a call has bound a parameter that the defining environment, the root,
\* does not bind
C6_Witness ==
  \E j \in DOMAIN Log :
    /\ ParamBound(j)
    /\ envs[Log[j].env].parent = Root
    /\ Log[j].symbol \notin DOMAIN envs[Root].vars
    /\ envs[Log[j].env].vars[Log[j].symbol] = Log[j].value
    /\ \E k \in DOMAIN Log : k > j /\ ClosureInvoke(k)

\* the chain of environments from e to the root
RECURSIVE Chain(_, _)
Chain(heap, e) ==
  IF e = 0 THEN <<>> ELSE <<e>> \o Chain(heap, heap[e].parent)

\* the binding of symbol nearest to e on the chain of e, if any
Nearest(heap, e, symbol) ==
  LET c == Chain(heap, e)
      hits == {t \in DOMAIN c : symbol \in DOMAIN heap[c[t]].vars}
  IN  IF hits = {} THEN 0
      ELSE c[CHOOSE t \in hits : \A u \in hits : t <= u]

\* C7: a lookup takes the binding nearest on the chain from the closure's
\* environment to the root, as the bindings are at the time of the lookup,
\* not at the time the closure was created; an unbound name is an error
C7_LookupWalksChain ==
  \A j \in DOMAIN Log :
    Log[j].op = "lookup" =>
      LET H == HeapAfter(last.before, Log, j - 1)
          n == Nearest(H, Log[j].env, Log[j].symbol)
      IN  Log[j].res = IF n = 0
                       THEN Err("undefined variable", Log[j].symbol)
                       ELSE Ok(H[n].vars[Log[j].symbol])

\* (f) returns 9: the closure f reads x, which its own environment does
\* not bind, from the root, where x has been set to 9
C7_Witness ==
  /\ Evaluated
  /\ last.sexp = SList(<<SSymbol(sf)>>)
  /\ last.res = Ok(VSExp(SInt(9)))
  /\ last.before[Root].vars[sx] = VSExp(SInt(9))
  /\ \E j \in DOMAIN Log :
       /\ Log[j].op = "lookup"
       /\ Log[j].symbol = sx
       /\ Log[j].env # Root
       /\ sx \notin DOMAIN envs[Log[j].env].vars

\* a special form of the wrong shape in an expression position of t: the
\* operand of quote and the parameter list of lambda are data, the other
\* elements of a form are expressions
RECURSIVE Malformed(_)
Malformed(t) ==
  /\ t.k = "ListType"
  /\ Len(t.v) > 0
  /\ LET n == Len(t.v)
     IN  IF t.v[1] = SSymbol(kIf)
         THEN \/ n \notin {3, 4}
              \/ \E u \in 2..n : Malformed(t.v[u])
         ELSE IF t.v[1] = SSymbol(kSet)
         THEN \/ n # 3
              \/ t.v[2].k # "SymbolType"
              \/ Malformed(t.v[3])
         ELSE IF t.v[1] = SSymbol(kQuote)
         THEN n # 2
         ELSE IF t.v[1] = SSymbol(kLambda)
         THEN \/ n < 3
              \/ t.v[2].k # "ListType"
              \/ \E u \in DOMAIN t.v[2].v : t.v[2].v[u].k # "SymbolType"
              \/ \E u \in 3..n : Malformed(t.v[u])
         ELSE \E u \in 1..n : Malformed(t.v[u])

\* C8: a top-level expression with a malformed special form anywhere among
\* its expressions, also in a branch or a body that would not be executed,
\* fails with a compile error before any node is evaluated, and leaves
\* every environment as it was
C8_MalformedFailsFast ==
  (Evaluated /\ Malformed(last.sexp)) =>
    /\ last.res.kind = "err"
    /\ last.res.err = "makeAst"
    /\ Log = <<>>
    /\ envs = last.before

\* the malformed form is in the body of a lambda that is an argument after
\* a set, or in the branch of an if that would not be taken
C8_Witness ==
  /\ Evaluated
  /\ Malformed(last.sexp)
  /\ last.sexp.v[1] \notin {SSymbol(kSet), SSymbol(kQuote), SSymbol(kLambda)}
  /\ Len(last.sexp.v) >= 3
  /\ last.sexp.v[2] = SList(<<SSymbol(kSet), SSymbol(sx), SInt(1)>>)
       \/ (last.sexp.v[1] = SSymbol(kIf) /\ last.sexp.v[2] = SList(<<>>))
  /\ ~Malformed(last.sexp.v[2])
  /\ last.res.kind = "err"

\* the writes of the evaluation: a set, or the binding of a parameter
Writes == {j \in DOMAIN Log : Log[j].op = "set"}
LastWrites ==
  {j \in Writes :
     \A k \in Writes :
       (k > j) => ~(Log[k].env = Log[j].env /\ Log[k].symbol = Log[j].symbol)}
Failed == Evaluated /\ last.res.kind = "err" /\ last.res.err # "makeAst"

\* C9: after an evaluation that failed at run time every write that
\* completed before the failure is in effect, every other binding is as it
\* was before the evaluation, and the next evaluation starts from exactly
\* these environments
C9_KeepsWrites ==
  Failed =>
    /\ Len(envs) >= Len(last.before)
    /\ \A j \in LastWrites :
         /\ Log[j].env <= Len(envs)
         /\ Log[j].symbol \in DOMAIN envs[Log[j].env].vars
         /\ envs[Log[j].env].vars[Log[j].symbol] = Log[j].value
    /\ \A E \in DOMAIN envs :
         /\ E <= Len(last.before) => envs[E].parent = last.before[E].parent
         /\ \A s \in DOMAIN envs[E].vars :
              \/ \E j \in Writes : Log[j].env = E /\ Log[j].symbol = s
              \/ /\ E <= Len(last.before)
                 /\ s \in DOMAIN last.before[E].vars
                 /\ envs[E].vars[s] = last.before[E].vars[s]
    /\ \A E \in DOMAIN last.before :
         DOMAIN last.before[E].vars \subseteq DOMAIN envs[E].vars

C9_NoRollback ==
  /\ []C9_KeepsWrites
  /\ [][last'.before = envs]_vars

\* an evaluation has failed after a set at the root, and the root has the
\* value set, which it had not before
C9_Witness ==
  /\ Failed
  /\ \E j \in LastWrites :
       /\ Log[j].by = "set"
       /\ Log[j].env = Root
       /\ envs[Root].vars[Log[j].symbol] = Log[j].value
       /\ \/ Log[j].symbol \notin DOMAIN last.before[Root].vars
          \/ last.before[Root].vars[Log[j].symbol] # Log[j].value

\* the arguments of add that are not integers, and the sum of a list of
\* integers
NonInts == {t \in DOMAIN arg : ~(arg[t].valueType = "SExp"
                                   /\ arg[t].SExp.k = "IntType")}
RECURSIVE SumTo(_)
SumTo(n) == IF n = 0 THEN 0 ELSE SumTo(n - 1) + arg[n].SExp.v

\* C11: add returns the sum of its arguments when all are integers (0 for
\* none) and otherwise a type error that names the position, counted from
\* 0, of the first argument that is not an integer, whatever its kind
C11_AddSumsOrTypeError ==
  out.st = "add" =>
    IF NonInts = {}
    THEN out.res = Ok(VSExp(SInt(SumTo(Len(arg)))))
    ELSE /\ out.res.kind = "err"
         /\ out.res.what = (CHOOSE t \in NonInts : \A u \in NonInts : t <= u) - 1

\* no list in t has if, set, quote or lambda as its head
RECURSIVE NoSpecialForm(_)
NoSpecialForm(t) ==
  t.k = "ListType" =>
    /\ Len(t.v) > 0 =>
         t.v[1] \notin {SSymbol(kIf), SSymbol(kSet), SSymbol(kQuote),
                        SSymbol(kLambda)}
    /\ \A u \in DOMAIN t.v : NoSpecialForm(t.v[u])

\* C12: an expression without special forms that is evaluated twice in a
\* row, nothing being set in between, has the same result both times
C12_ReferentialStability ==
  [][(/\ Evaluated
      /\ last'.step = "eval"
      /\ last'.sexp = last.sexp
      /\ NoSpecialForm(last.sexp))
       => last'.res = last.res]_vars

\* C13: the rendering of an integer or string value, tokenized and parsed,
\* is exactly one expression, equal to the value rendered
C13_RenderRoundTrip ==
  out.st = "render" =>
    /\ out.back.st = "ok"
    /\ Len(out.back.sexps) = 1
    /\ out.back.sexps[1].k = arg.SExp.k
    /\ out.back.sexps[1].v = arg.SExp.v

\* the step at which application id was dispatched to a closure
ClosureDispatch(id) ==
  {q \in DOMAIN Log :
     /\ Log[q].op = "dispatch"
     /\ Log[q].app = id
     /\ Log[q].target = "Lambda"}

\* step k evaluates an argument of the closure application id that is a
\* bare symbol, and since the dispatch at step q nothing has happened but
\* the evaluation of earlier such arguments and the binding of parameters
SymbolArg(id, q, k) ==
  /\ k < Len(Log)
  /\ q < k
  /\ Log[k + 1].op = "lookup"
  /\ Log[k + 1].env = Log[k].env
  /\ \A x \in (q + 1)..(k - 1) :
       \/ Log[x].op \in {"arg", "lookup"}
       \/ Log[x].op = "set" /\ Log[x].by = "param"

\* C14 as claimed: an argument of a closure application evaluates to the
\* value it has in the caller's environment as it was when the call began:
\* the binding of the earlier parameters of the call does not change it
C14_ArgsSeeCallersEnv ==
  \A id \in Apps :
    \A q \in ClosureDispatch(id) :
      \A k \in ArgPos(id) :
        SymbolArg(id, q, k) =>
          LET H == HeapAfter(last.before, Log, q)
              n == Nearest(H, Log[k].env, Log[k + 1].symbol)
          IN  Log[k + 1].res
                = IF n = 0
                  THEN Err("undefined variable", Log[k + 1].symbol)
                  ELSE Ok(H[n].vars[Log[k + 1].symbol])

=============================================================================
